---------------------------- MODULE Spec2Model ----------------------------
(***************************************************************************)
(* PIIRedactor (src/pii_redactor.py): the ordered regular-expression rule  *)
(* table PATTERNS, the matching those patterns perform under Python's re   *)
(* module (leftmost, greedy, backtracking, re.IGNORECASE), and redact()    *)
(* as a state machine that walks the table one rule per step.              *)
(*                                                                         *)
(* A text is a sequence of one-character strings.  Positions are counted   *)
(* 0..Len(s): position i lies between s[i] and s[i+1].                     *)
(***************************************************************************)
EXTENDS Integers, Sequences, FiniteSets, TLC

(***************************************************************************)
(* Character classes of the patterns.                                      *)
(***************************************************************************)
UpperSeq == <<"A","B","C","D","E","F","G","H","I","J","K","L","M",
              "N","O","P","Q","R","S","T","U","V","W","X","Y","Z">>
LowerSeq == <<"a","b","c","d","e","f","g","h","i","j","k","l","m",
              "n","o","p","q","r","s","t","u","v","w","x","y","z">>
Upper == {UpperSeq[i] : i \in DOMAIN UpperSeq}
Lower == {LowerSeq[i] : i \in DOMAIN LowerSeq}
Digit == {"0","1","2","3","4","5","6","7","8","9"}
White == {" ", "\t", "\n"}
\* a letter outside ASCII: \w takes it, no class of the table does
SharpS == "ß"
WordChar == Upper \cup Lower \cup Digit \cup {"_", SharpS}

\* the other case of a letter, the character itself otherwise
SwapCase(c) ==
    IF c \in Upper THEN LowerSeq[CHOOSE i \in DOMAIN UpperSeq : UpperSeq[i] = c]
    ELSE IF c \in Lower THEN UpperSeq[CHOOSE i \in DOMAIN LowerSeq : LowerSeq[i] = c]
    ELSE c

\* membership of a character in a class without re.IGNORECASE
InClass_caseSensitive(c, cls) == c \in cls

\* membership of a character in a class under re.IGNORECASE
InClass(c, cls) == c \in cls \/ SwapCase(c) \in cls

(***************************************************************************)
(* Pattern items: a word boundary \b, a character class with a greedy      *)
(* repetition {lo,hi} (hi = -1: no upper limit), a negative lookahead.     *)
(***************************************************************************)
WB == [t |-> "b"]
Rep(cls, lo, hi) == [t |-> "c", cls |-> cls, lo |-> lo, hi |-> hi]
One(cls) == Rep(cls, 1, 1)
Opt(cls) == Rep(cls, 0, 1)
Lit(c) == Rep({c}, 1, 1)
NotAhead(p) == [t |-> "nla", pat |-> p]

\* \b at position i: exactly one of the two neighbours is a word character
AtBoundary(s, i) ==
    LET before == i >= 1 /\ s[i] \in WordChar
        after  == i < Len(s) /\ s[i + 1] \in WordChar
    IN  before # after

\* how many characters from position i on lie in cls, at most hi of them
RECURSIVE Run(_, _, _, _)
Run(cls, s, i, hi) ==
    IF hi = 0 \/ i >= Len(s) THEN 0
    ELSE IF InClass(s[i + 1], cls) THEN 1 + Run(cls, s, i + 1, hi - 1)
    ELSE 0

(***************************************************************************)
(* MatchFrom(pat, k, s, i): where a match of items k.. of pat that starts  *)
(* at position i ends, -1 when there is none.  A repetition takes as many  *)
(* characters as it can and gives them back one at a time (Backtrack).     *)
(***************************************************************************)
RECURSIVE MatchFrom(_, _, _, _), Backtrack(_, _, _, _, _, _)
MatchFrom(pat, k, s, i) ==
    IF k > Len(pat) THEN i
    ELSE LET it == pat[k] IN
         CASE it.t = "b" ->
                 IF AtBoundary(s, i) THEN MatchFrom(pat, k + 1, s, i) ELSE -1
           [] it.t = "nla" ->
                 IF MatchFrom(it.pat, 1, s, i) = -1
                 THEN MatchFrom(pat, k + 1, s, i) ELSE -1
           [] it.t = "c" ->
                 LET n == Run(it.cls, s, i, it.hi)
                 IN  IF n < it.lo THEN -1 ELSE Backtrack(pat, k, s, i, n, it.lo)

Backtrack(pat, k, s, i, j, lo) ==
    IF j < lo THEN -1
    ELSE LET r == MatchFrom(pat, k + 1, s, i + j)
         IN  IF r # -1 THEN r ELSE Backtrack(pat, k, s, i, j - 1, lo)

(***************************************************************************)
(* The scan re.findall and re.sub share: the non-overlapping matches of    *)
(* pat in s from position pos on, leftmost first, as <<start, end>> pairs. *)
(* No pattern of the table matches the empty string.                       *)
(***************************************************************************)
RECURSIVE FindSpans(_, _, _)
FindSpans(pat, s, pos) ==
    IF pos >= Len(s) THEN <<>>
    ELSE LET e == MatchFrom(pat, 1, s, pos)
         IN  IF e > pos THEN <<(<<pos, e>>)>> \o FindSpans(pat, s, e)
             ELSE FindSpans(pat, s, pos + 1)

\* re.search in place of re.findall: the first match alone
findall_first(pat, s) ==
    LET all == FindSpans(pat, s, 0) IN IF all = <<>> THEN <<>> ELSE <<all[1]>>

\* re.findall(pattern, s, re.IGNORECASE): one entry per match
findall(pat, s) == FindSpans(pat, s, 0)

\* re.sub(pattern, repl, s, flags=re.IGNORECASE)
RECURSIVE Rebuild(_, _, _, _, _)
Rebuild(spans, n, repl, s, pos) ==
    IF n > Len(spans) THEN SubSeq(s, pos + 1, Len(s))
    ELSE SubSeq(s, pos + 1, spans[n][1]) \o repl
         \o Rebuild(spans, n + 1, repl, s, spans[n][2])

sub(pat, repl, s) == Rebuild(FindSpans(pat, s, 0), 1, repl, s, 0)

(***************************************************************************)
(* PATTERNS, in the order the dict literal lists its keys: that is the     *)
(* order .items() iterates.  Each entry: pii_type, pattern, replacement.   *)
(***************************************************************************)
AlNum == Upper \cup Digit
Sep == {"-", " "}
Rule(name, pat, repl) == [pii_type |-> name, pattern |-> pat, replacement |-> repl]

credit_card ==
    Rule("credit_card",
       <<WB, Rep(Digit,4,4), Opt(Sep), Rep(Digit,4,4), Opt(Sep), Rep(Digit,4,4),
         Opt(Sep), Rep(Digit,4,4), WB>>,
       <<"[","C","R","E","D","I","T","_","C","A","R","D","_","R","E","D","A","C","T","E","D","]">>)

iban ==
    Rule("iban",
       <<WB, Rep(Upper,2,2), Rep(Digit,2,2), Opt(White), Rep(AlNum,4,4), Opt(White),
         Rep(AlNum,4,4), Opt(White), Rep(AlNum,4,4), Opt(White), Rep(AlNum,0,18), WB>>,
       <<"[","I","B","A","N","_","R","E","D","A","C","T","E","D","]">>)

account_number ==
    Rule("account_number",
       <<WB, One({"A","a"}), Lit("c"), Lit("c"), Lit("o"), Lit("u"), Lit("n"), Lit("t"),
         Opt(White), One({"N","n"}), Lit("o"), Opt({"."}), Opt(White), Opt({":"}),
         Opt(White), Rep(Digit,8,18), WB>>,
       <<"A","c","c","o","u","n","t"," ","N","o",":"," ","[","R","E","D","A","C","T","E","D","]">>)

\* the +91 pattern without its optional separator: \+91[6-9]\d{9}\b
phone_india_code_noSep ==
    Rule("phone_india_code",
       <<Lit("+"), Lit("9"), Lit("1"), One({"6","7","8","9"}), Rep(Digit,9,9), WB>>,
       <<"[","P","H","O","N","E","_","R","E","D","A","C","T","E","D","]">>)

phone_india_code ==
    Rule("phone_india_code",
       <<Lit("+"), Lit("9"), Lit("1"), Opt(Sep), One({"6","7","8","9"}), Rep(Digit,9,9), WB>>,
       <<"[","P","H","O","N","E","_","R","E","D","A","C","T","E","D","]">>)

phone_india ==
    Rule("phone_india",
       <<WB, One({"6","7","8","9"}), Rep(Digit,9,9), WB,
         NotAhead(<<Opt(White), One(Digit)>>)>>,
       <<"[","P","H","O","N","E","_","R","E","D","A","C","T","E","D","]">>)

aadhaar ==
    Rule("aadhaar",
       <<WB, Rep(Digit,4,4), One(White), Rep(Digit,4,4), One(White), Rep(Digit,4,4), WB>>,
       <<"[","A","A","D","H","A","A","R","_","R","E","D","A","C","T","E","D","]">>)

\* the PAN entry with the placeholder of the entry above it
pan_card_aadhaarPlaceholder ==
    Rule("pan_card",
       <<WB, Rep(Upper,5,5), Rep(Digit,4,4), One(Upper), WB>>,
       <<"[","A","A","D","H","A","A","R","_","R","E","D","A","C","T","E","D","]">>)

pan_card ==
    Rule("pan_card",
       <<WB, Rep(Upper,5,5), Rep(Digit,4,4), One(Upper), WB>>,
       <<"[","P","A","N","_","R","E","D","A","C","T","E","D","]">>)

ifsc ==
    Rule("ifsc",
       <<WB, Rep(Upper,4,4), Lit("0"), Rep(AlNum,6,6), WB>>,
       <<"[","I","F","S","C","_","R","E","D","A","C","T","E","D","]">>)

uk_ni ==
    Rule("uk_ni",
       <<WB, Rep(Upper,2,2), Opt(White), Rep(Digit,2,2), Opt(White), Rep(Digit,2,2),
         Opt(White), Rep(Digit,2,2), Opt(White), One(Upper), WB>>,
       <<"[","U","K","_","N","I","_","R","E","D","A","C","T","E","D","]">>)

uk_sort ==
    Rule("uk_sort",
       <<WB, Rep(Digit,2,2), Lit("-"), Rep(Digit,2,2), Lit("-"), Rep(Digit,2,2), WB>>,
       <<"[","U","K","_","S","O","R","T","_","R","E","D","A","C","T","E","D","]">>)

\* the Medicare pattern with its spaces optional: \b\d{4}\s?\d{5}\s?\d\b
au_medicare_optionalSpaces ==
    Rule("au_medicare",
       <<WB, Rep(Digit,4,4), Opt(White), Rep(Digit,5,5), Opt(White), One(Digit), WB>>,
       <<"[","A","U","_","M","E","D","I","C","A","R","E","_","R","E","D","A","C","T","E","D","]">>)

au_medicare ==
    Rule("au_medicare",
       <<WB, Rep(Digit,4,4), One(White), Rep(Digit,5,5), One(White), One(Digit), WB>>,
       <<"[","A","U","_","M","E","D","I","C","A","R","E","_","R","E","D","A","C","T","E","D","]">>)

us_ssn ==
    Rule("us_ssn",
       <<WB, Rep(Digit,3,3), One(Sep), Rep(Digit,2,2), One(Sep), Rep(Digit,4,4), WB>>,
       <<"[","U","S","_","S","S","N","_","R","E","D","A","C","T","E","D","]">>)

us_routing ==
    Rule("us_routing",
       <<WB, Lit("0"), Rep(Digit,8,8), WB>>,
       <<"[","U","S","_","R","O","U","T","I","N","G","_","R","E","D","A","C","T","E","D","]">>)

au_tfn_ca_sin ==
    Rule("au_tfn_ca_sin",
       <<WB, Rep(Digit,3,3), One(White), Rep(Digit,3,3), One(White), Rep(Digit,3,3), WB>>,
       <<"[","T","A","X","_","I","D","_","R","E","D","A","C","T","E","D","]">>)

email ==
    Rule("email",
       <<WB, Rep(Upper \cup Lower \cup Digit \cup {".","_","%","+","-"}, 1, -1), Lit("@"),
         Rep(Upper \cup Lower \cup Digit \cup {".","-"}, 1, -1), Lit("."),
         Rep(Upper \cup Lower \cup {"|"}, 2, -1), WB>>,
       <<"[","E","M","A","I","L","_","R","E","D","A","C","T","E","D","]">>)

\* the table with phone_india ahead of phone_india_code
PATTERNS_reordered ==
    <<credit_card, iban, account_number, phone_india, phone_india_code, aadhaar,
      pan_card, ifsc, uk_ni, uk_sort, au_medicare, us_ssn, us_routing, au_tfn_ca_sin,
      email>>

PATTERNS ==
    <<credit_card, iban, account_number, phone_india_code, phone_india, aadhaar,
      pan_card, ifsc, uk_ni, uk_sort, au_medicare, us_ssn, us_routing, au_tfn_ca_sin,
      email>>

NumRules == Len(PATTERNS)
Categories == {PATTERNS[k].pii_type : k \in 1..NumRules}

(***************************************************************************)
(* Python values passed as redact's argument.                              *)
(***************************************************************************)
PyStr(s)  == [kind |-> "str",  chars |-> s,    n |-> 0]
PyNone    == [kind |-> "None", chars |-> <<>>, n |-> 0]
PyInt(i)  == [kind |-> "int",  chars |-> <<>>, n |-> i]
PyBool(b) == [kind |-> "bool", chars |-> <<>>, n |-> IF b THEN 1 ELSE 0]
PyList(l) == [kind |-> "list", chars |-> <<>>, n |-> l]   \* a list of l items

\* `text is None` in place of `not text`
Truthy_isNone(v) == v.kind # "None"

\* bool(v): what `not text` negates
Truthy(v) ==
    CASE v.kind = "None" -> FALSE
      [] v.kind = "str"  -> Len(v.chars) > 0
      [] OTHER           -> v.n # 0

EmptyDict == <<>>
NoResult == [returned |-> FALSE, redacted_text |-> <<>>, redactions |-> EmptyDict,
             has_pii |-> FALSE]
EmptyResult == [returned |-> TRUE, redacted_text |-> <<>>, redactions |-> EmptyDict,
                has_pii |-> FALSE]

\* d.get(key, 0) with the entry forgotten: what `=` in place of `+=` reads
Get_zero(d, key) == 0

\* d.get(key, 0)
Get(d, key) == IF key \in DOMAIN d THEN d[key] ELSE 0
\* d[key] = value
Put(d, key, value) == [x \in DOMAIN d \cup {key} |-> IF x = key THEN value ELSE d[x]]

(***************************************************************************)
(* State: one PIIRedactor instance and the redact call it is executing.    *)
(***************************************************************************)
VARIABLES
    preserve_emails,  \* self.preserve_emails
    stats,            \* self.stats: [total, by_type]
    pc,               \* "idle", "loop", "returned", "raised"
    text,             \* redact's argument
    redacted_text,    \* the working string of the call
    redactions,       \* the call's pii_type -> count dict
    idx,              \* position of the for loop in PATTERNS
    result,           \* the dict the call returned
    calls,            \* redact calls made on the instance so far
    history,          \* the redactions dicts the instance's calls returned, in order
    seen,             \* the rules evaluated by the call, in order: pii_type,
                      \* the string findall searched, the string after sub
    workers,          \* the thread pool's workers: each one's redact call on the
                      \* shared instance, its locals and its place in the call
    ticket,           \* the Zendesk ticket: tags, comments, priority, subject,
                      \* description
    fetched,          \* the ticket dict main fetched and hands to process_ticket
    llm_requests,     \* the requests sent to the LLM: the path that sent each, the
                      \* subject and description placed in it, and the fields'
                      \* original text
    today,            \* datetime.now().strftime('%Y%m%d')
    ops,              \* the ticket operations run so far
    last              \* the last ticket operation: its arguments, what it
                      \* returned, the ticket before it, the LLM calls it made

\* the state of one redact call
callVars == <<pc, text, redacted_text, redactions, idx, result, calls, history, seen>>

\* the state of the ticketing side
zendeskVars == <<ticket, fetched, llm_requests, today, ops, last>>

\* the state of the batch around the one call
batchVars == <<workers, zendeskVars>>

vars == <<preserve_emails, stats, pc, text, redacted_text, redactions, idx,
          result, calls, history, seen, workers, ticket, fetched, llm_requests,
          today, ops, last>>

\* no ticket, no fetched dict, no operation
NoTicket == [tags |-> <<>>, comments |-> <<>>, priority |-> "none",
             subject |-> <<>>, description |-> <<>>]
NoOp == [op |-> "none"]

\* the workers of the pool that run at once
MaxWorkers == 2
Workers == 1..MaxWorkers

\* a worker that has not called redact
IdleWorker ==
    [pc |-> "idle", text |-> <<>>, redacted_text |-> <<>>, redactions |-> EmptyDict,
     idx |-> 0, count |-> 0, read |-> 0, result |-> NoResult]

\* PIIRedactor.__init__(preserve_emails)
Init ==
    /\ preserve_emails \in BOOLEAN
    /\ stats = [total |-> 0, by_type |-> EmptyDict]
    /\ pc = "idle"
    /\ text = PyNone
    /\ redacted_text = <<>>
    /\ redactions = EmptyDict
    /\ idx = 0
    /\ result = NoResult
    /\ calls = 0
    /\ history = <<>>
    /\ seen = <<>>
    /\ workers = [w \in Workers |-> IdleWorker]
    /\ ticket = NoTicket
    /\ fetched = NoTicket
    /\ llm_requests = {}
    /\ today = <<>>
    /\ ops = 0
    /\ last = NoOp

\* redact(v) up to the for loop: the falsy-argument return, the two locals
Call(v) ==
    /\ pc \in {"idle", "returned", "raised"}
    /\ text' = v
    /\ calls' = calls + 1
    /\ seen' = <<>>
    /\ IF ~Truthy(v)
       THEN /\ result' = EmptyResult
            /\ history' = Append(history, EmptyDict)
            /\ pc' = "returned"
            /\ redacted_text' = <<>>
            /\ redactions' = EmptyDict
            /\ idx' = 0
       ELSE /\ result' = NoResult
            /\ history' = history
            /\ pc' = "loop"
            /\ redacted_text' = v.chars
            /\ redactions' = EmptyDict
            /\ idx' = 1
    /\ UNCHANGED <<preserve_emails, stats, batchVars>>

\* the loop body without its email test
Skipped_never(k, preserve) == FALSE

\* whether the loop body skips PATTERNS[k]
Skipped(k, preserve) == PATTERNS[k].pii_type = "email" /\ preserve

\* the loop body without its `if matches:` test
RuleStep_unguarded ==
    /\ pc = "loop"
    /\ idx <= NumRules
    /\ LET r == PATTERNS[idx]
           count == Len(findall(r.pattern, redacted_text))
           after == sub(r.pattern, r.replacement, redacted_text)
       IN  IF Skipped(idx, preserve_emails)
           THEN /\ idx' = idx + 1
                /\ UNCHANGED <<pc, redacted_text, redactions, stats, seen>>
           ELSE IF text.kind # "str"
           THEN /\ pc' = "raised"
                /\ UNCHANGED <<idx, redacted_text, redactions, stats, seen>>
           ELSE /\ redactions' = Put(redactions, r.pii_type, count)
                /\ stats' = [total |-> stats.total + count,
                             by_type |-> Put(stats.by_type, r.pii_type,
                                             Get(stats.by_type, r.pii_type) + count)]
                /\ redacted_text' = after
                /\ seen' = Append(seen, [pii_type |-> r.pii_type,
                                         on |-> redacted_text, after |-> after])
                /\ idx' = idx + 1
                /\ pc' = pc
    /\ UNCHANGED <<preserve_emails, text, result, calls, history, batchVars>>

\* the loop body with the call's count read back from the instance's stats
RuleStep_countFromStats ==
    /\ pc = "loop"
    /\ idx <= NumRules
    /\ LET r == PATTERNS[idx]
           count == Len(findall(r.pattern, redacted_text))
           after == sub(r.pattern, r.replacement, redacted_text)
       IN  IF Skipped(idx, preserve_emails)
           THEN /\ idx' = idx + 1
                /\ UNCHANGED <<pc, redacted_text, redactions, stats, seen>>
           ELSE IF text.kind # "str"
           THEN /\ pc' = "raised"
                /\ UNCHANGED <<idx, redacted_text, redactions, stats, seen>>
           ELSE IF count > 0
           THEN /\ redactions' = Put(redactions, r.pii_type,
                                     Get(stats.by_type, r.pii_type) + count)
                /\ stats' = [total |-> stats.total + count,
                             by_type |-> Put(stats.by_type, r.pii_type,
                                             Get(stats.by_type, r.pii_type) + count)]
                /\ redacted_text' = after
                /\ seen' = Append(seen, [pii_type |-> r.pii_type,
                                         on |-> redacted_text, after |-> after])
                /\ idx' = idx + 1
                /\ pc' = pc
           ELSE /\ seen' = Append(seen, [pii_type |-> r.pii_type,
                                         on |-> redacted_text, after |-> redacted_text])
                /\ idx' = idx + 1
                /\ UNCHANGED <<pc, redacted_text, redactions, stats>>
    /\ UNCHANGED <<preserve_emails, text, result, calls, history, batchVars>>

\* one iteration of the for loop, on PATTERNS[idx]
RuleStep ==
    /\ pc = "loop"
    /\ idx <= NumRules
    /\ LET r == PATTERNS[idx]
           matches == findall(r.pattern, redacted_text)
           count == Len(matches)
           after == sub(r.pattern, r.replacement, redacted_text)
       IN  IF Skipped(idx, preserve_emails)
           THEN /\ idx' = idx + 1
                /\ UNCHANGED <<pc, redacted_text, redactions, stats, seen>>
           ELSE IF text.kind # "str"
           THEN \* re.findall raises TypeError on a value that is no string
                /\ pc' = "raised"
                /\ UNCHANGED <<idx, redacted_text, redactions, stats, seen>>
           ELSE IF count > 0
           THEN /\ redactions' = Put(redactions, r.pii_type, count)
                /\ stats' = [total |-> stats.total + count,
                             by_type |-> Put(stats.by_type, r.pii_type,
                                             Get(stats.by_type, r.pii_type) + count)]
                /\ redacted_text' = after
                /\ seen' = Append(seen, [pii_type |-> r.pii_type,
                                         on |-> redacted_text, after |-> after])
                /\ idx' = idx + 1
                /\ pc' = pc
           ELSE /\ seen' = Append(seen, [pii_type |-> r.pii_type,
                                         on |-> redacted_text, after |-> redacted_text])
                /\ idx' = idx + 1
                /\ UNCHANGED <<pc, redacted_text, redactions, stats>>
    /\ UNCHANGED <<preserve_emails, text, result, calls, history, batchVars>>

\* a second pass over the table in place of the return
Return_secondPass ==
    /\ pc = "loop"
    /\ idx = NumRules + 1
    /\ idx' = 1
    /\ UNCHANGED <<preserve_emails, stats, pc, text, redacted_text, redactions, result,
                   calls, history, seen, batchVars>>

\* the return statement after the loop
Return ==
    /\ pc = "loop"
    /\ idx = NumRules + 1
    /\ result' = [returned |-> TRUE, redacted_text |-> redacted_text,
                  redactions |-> redactions,
                  has_pii |-> Cardinality(DOMAIN redactions) > 0]
    /\ history' = Append(history, redactions)
    /\ pc' = "returned"
    /\ UNCHANGED <<preserve_emails, stats, text, redacted_text, redactions, idx,
                   calls, seen, batchVars>>

(***************************************************************************)
(* redact on a string as a function of the string and the configuration:   *)
(* what a call returns, the instance's stats left aside.                   *)
(***************************************************************************)
RECURSIVE Loop(_, _, _, _)
Loop(k, s, red, preserve) ==
    IF k > NumRules
    THEN [returned |-> TRUE, redacted_text |-> s, redactions |-> red,
          has_pii |-> Cardinality(DOMAIN red) > 0]
    ELSE IF Skipped(k, preserve) THEN Loop(k + 1, s, red, preserve)
    ELSE LET r == PATTERNS[k]
             count == Len(findall(r.pattern, s))
         IN  IF count > 0
             THEN Loop(k + 1, sub(r.pattern, r.replacement, s),
                       Put(red, r.pii_type, count), preserve)
             ELSE Loop(k + 1, s, red, preserve)

redact(s, preserve) ==
    IF Len(s) = 0 THEN EmptyResult ELSE Loop(1, s, EmptyDict, preserve)

(***************************************************************************)
(* Inputs.  The examples are those of the module's own demonstration       *)
(* (src/pii_redactor.py, lines 94-124) and of src/test_pii_redaction.py,   *)
(* with the pieces that put an example into a context.                     *)
(***************************************************************************)
ExCardHyphen == <<"4","5","3","2","-","1","4","8","8","-","0","3","4","3","-","6","4","6","7">>
ExCardSpaced == <<"4","5","3","2"," ","1","4","8","8"," ","0","3","4","3"," ","6","4","6","7">>
ExCardPlain  == <<"4","5","3","2","1","4","8","8","0","3","4","3","6","4","6","7">>
ExIbanPlain  == <<"D","E","8","9","3","7","0","4","0","0","4","4","0","5","3","2","0","1","3","0","0","0">>
ExIbanSpaced == <<"G","B","2","9"," ","N","W","B","K"," ","6","0","1","6"," ","1","3","3","1"," ","9","2","6","8"," ","1","9">>
ExAccountNo  == <<"A","c","c","o","u","n","t"," ","N","o",":"," ","1","2","3","4","5","6","7","8","9","0","1","2">>
ExPhoneCode  == <<"+","9","1"," ","9","8","7","6","5","4","3","2","1","0">>
ExPhone      == <<"9","8","7","6","5","4","3","2","1","0">>
ExAadhaar    == <<"1","2","3","4"," ","5","6","7","8"," ","9","0","1","2">>
ExPan        == <<"A","B","C","D","E","1","2","3","4","F">>
ExPanLower   == <<"a","b","c","d","e","1","2","3","4","f">>
ExIfsc       == <<"H","D","F","C","0","0","0","1","2","3","4">>
ExUkNi       == <<"A","B","1","2","3","4","5","6","C">>
ExUkNiSpaced == <<"A","B"," ","1","2"," ","3","4"," ","5","6"," ","C">>
ExSortCode   == <<"1","2","-","3","4","-","5","6">>
ExMedicare   == <<"1","2","3","4"," ","5","6","7","8","9"," ","1">>
ExSsnHyphen  == <<"1","2","3","-","4","5","-","6","7","8","9">>
ExSsnSpaced  == <<"1","2","3"," ","4","5"," ","6","7","8","9">>
ExSsnPlain   == <<"1","2","3","4","5","6","7","8","9">>
ExRouting    == <<"0","2","1","0","0","0","0","2","1">>
ExTaxId      == <<"1","2","3"," ","4","5","6"," ","7","8","9">>
ExEmail      == <<"a","@","b",".","c","o","m">>
ExAtDomain   == <<"@","b",".","c","o","m">>
ExMailTo     == <<"a","@","b",".">>
ExWord       == <<"C","a","l","l">>
ExLetter     == <<"x">>
ExGroup      == <<"1","2","3","4">>

Fragments ==
    {ExCardHyphen, ExCardSpaced, ExCardPlain, ExIbanPlain, ExIbanSpaced, ExAccountNo, ExPhoneCode,
     ExPhone, ExAadhaar, ExPan, ExPanLower, ExIfsc, ExUkNi, ExUkNiSpaced, ExSortCode, ExMedicare,
     ExSsnHyphen, ExSsnSpaced, ExSsnPlain, ExRouting, ExTaxId, ExEmail, ExAtDomain, ExMailTo, ExWord,
     ExLetter, ExGroup}

Separators == {<<>>, <<" ">>, <<",", " ">>}

\* n copies of b, each preceded by the separator s
RECURSIVE Repeat(_, _, _)
Repeat(s, b, n) == IF n = 0 THEN <<>> ELSE s \o b \o Repeat(s, b, n - 1)

\* the longest run of one example: 1 + MaxRepeat instances
MaxRepeat == 2

\* a fragment alone, two fragments around a separator, one fragment repeated
Texts ==
    Fragments
    \cup {a \o s \o b : a \in Fragments, s \in Separators, b \in Fragments}
    \cup {b \o Repeat(s, b, n) : b \in Fragments, s \in Separators, n \in 1..MaxRepeat}

\* the arguments of a run of calls on one instance: text and values that are not text
Corpus ==
    {PyNone, PyStr(<<>>), PyInt(0), PyInt(5), PyBool(FALSE), PyBool(TRUE),
     PyList(0), PyList(1),
     PyStr(ExWord), PyStr(ExEmail), PyStr(ExEmail \o <<",", " ">> \o ExEmail),
     PyStr(ExPhone), PyStr(ExCardHyphen),
     PyStr(ExPhone \o ExAtDomain), PyStr(ExPhone \o <<" ">> \o ExSsnHyphen)}

\* the longest run of calls on one instance
MaxCalls == 2

(***************************************************************************)
(* Spec: a run of redact calls on one instance.  SpecTexts: one call, on   *)
(* any text of Texts.                                                      *)
(***************************************************************************)
Next ==
    \/ \E v \in Corpus : calls < MaxCalls /\ Call(v)
    \/ RuleStep
    \/ Return

Spec == Init /\ [][Next]_vars

NextTexts ==
    \/ \E s \in Texts : calls = 0 /\ Call(PyStr(s))
    \/ RuleStep
    \/ Return

SpecTexts == Init /\ [][NextTexts]_vars

\* a step of the running call, by what it does to the loop: an iteration moves to
\* the next entry of the table, a return or a raise ends the call.  Every
\* RuleStep and every Return is one, and one of them is possible whenever the
\* call is in its loop.
Advance ==
    /\ pc = "loop"
    /\ \/ idx' = idx + 1 /\ pc' = pc
       \/ idx' = idx /\ pc' \in {"returned", "raised"}

\* SpecTexts as the interpreter runs it: a call in its loop takes its next step
SpecTextsFair == SpecTexts /\ WF_<<pc, idx>>(Advance)

(***************************************************************************)
(* SpecForms: one call on a text of Forms, the written forms the patterns  *)
(* are about: a number of every length or leading digit a pattern's        *)
(* quantifier or class separates, standing alone.                          *)
(***************************************************************************)
\* the digits s in groups of four with sep between the groups
RECURSIVE Grouped(_, _)
Grouped(s, sep) ==
    IF Len(s) <= 4 THEN s
    ELSE SubSeq(s, 1, 4) \o sep \o Grouped(SubSeq(s, 5, Len(s)), sep)

CardDigits == ExCardPlain \o <<"1","2","3">>
CardSeparators == {<<>>, <<" ">>, <<"-">>}
CardLengths == 13..19

\* a card number of n digits written with sep between its groups of four
CardOf(n, sep) == Grouped(SubSeq(CardDigits, 1, n), sep)
CardTexts == {CardOf(n, sep) : n \in CardLengths, sep \in CardSeparators}

\* the two IBANs of the demonstration, each written contiguously and in
\* space-separated groups of four
Ungrouped(s) == SelectSeq(s, LAMBDA c : c # " ")
IbanTexts ==
    {ExIbanPlain, Grouped(ExIbanPlain, <<" ">>), ExIbanSpaced, Ungrouped(ExIbanSpaced)}

\* a 10-digit number with each leading digit phone_india takes, and what
\* follows it: nothing, a space, punctuation, a space and a letter, a space
\* and a digit, a digit
PhoneLeading == {"6", "7", "8", "9"}
PhoneTails == {<<>>, <<" ">>, <<".">>, <<" ", "x">>, <<" ", "1">>, <<"1">>}
PhoneOf(d, tail) == <<d>> \o Tail(ExPhone) \o tail
PhoneTexts == {PhoneOf(d, tail) : d \in PhoneLeading, tail \in PhoneTails}

\* the label of the demonstration's account number with n digits after it
AccountLabel == SubSeq(ExAccountNo, 1, 12)
AccountDigits == SubSeq(ExAccountNo, 13, 24) \o <<"3","4","5","6","7","8">>
AccountLengths == 8..18
AccountOf(n) == AccountLabel \o SubSeq(AccountDigits, 1, n)
AccountTexts == {AccountOf(n) : n \in AccountLengths}

\* the +91 number written with a space, a hyphen or nothing after the prefix
PhoneCodeTexts ==
    {SubSeq(ExPhoneCode, 1, 3) \o sep \o ExPhone : sep \in {<<" ">>, <<"-">>, <<>>}}
\* what stands between two numbers of one text
Between == {<<" ">>, <<",", " ">>, <<" ", "o", "r", " ">>}
\* a bare number and a +91 number in one text, in either order, and the
\* text "Call 9876543210 or +91 9876543210"
PhonePairTexts ==
    {ExPhone \o b \o c : b \in Between, c \in PhoneCodeTexts}
    \cup {c \o b \o ExPhone : b \in Between, c \in PhoneCodeTexts}
    \cup {ExWord \o <<" ">> \o ExPhone \o b \o c : b \in Between, c \in PhoneCodeTexts}

\* the demonstration's routing number with each digit in its first place
NineDigitsOf(d) == <<d>> \o Tail(ExRouting)
NineDigitTexts == {NineDigitsOf(d) : d \in Digit}

\* str.upper() and str.lower(): SharpS has no single upper-case letter
RECURSIVE upper(_)
upper(s) ==
    IF s = <<>> THEN <<>>
    ELSE (IF Head(s) = SharpS THEN <<"S", "S">>
          ELSE IF Head(s) \in Lower THEN <<SwapCase(Head(s))>>
          ELSE <<Head(s)>>) \o upper(Tail(s))

lower(s) == [i \in 1..Len(s) |-> IF s[i] \in Upper THEN SwapCase(s[i]) ELSE s[i]]

\* every second letter of s in the other case
Mixed(s) == [i \in 1..Len(s) |-> IF i % 2 = 0 THEN SwapCase(s[i]) ELSE s[i]]

\* the examples that have letters, in the case they are written in, in upper
\* case, in lower case and in mixed case; an NI number with a first letter
\* outside ASCII
LetterTexts ==
    {ExPan, ExIfsc, ExUkNi, ExUkNiSpaced, ExIbanPlain, ExIbanSpaced, ExAccountNo, ExEmail}
CaseTexts ==
    LetterTexts \cup {upper(t) : t \in LetterTexts} \cup {lower(t) : t \in LetterTexts}
    \cup {Mixed(t) : t \in LetterTexts}
    \cup {<<SharpS>> \o SubSeq(ExUkNi, 3, Len(ExUkNi))}

Forms ==
    CardTexts \cup IbanTexts \cup PhoneTexts \cup AccountTexts \cup PhoneCodeTexts
    \cup PhonePairTexts \cup NineDigitTexts \cup CaseTexts

NextForms ==
    \/ \E s \in Forms : calls = 0 /\ Call(PyStr(s))
    \/ RuleStep
    \/ Return

SpecForms == Init /\ [][NextForms]_vars

(***************************************************************************)
(* The batch processor's thread pool: src/Ai_ticket_processor.py makes one *)
(* PIIRedactor(preserve_emails=True) for the module and submits a          *)
(* process_ticket per ticket to a ThreadPoolExecutor, so the workers'      *)
(* redact calls run on the one instance.  A worker's call keeps            *)
(* redacted_text, redactions and the loop position in locals; self.stats   *)
(* is the instance's.  `self.stats['total'] += count` and the by_type      *)
(* assignment each read the counter, add, and store, with nothing held     *)
(* between the read and the store, so another worker can run in between.   *)
(***************************************************************************)
\* the descriptions of the tickets of a batch
WorkerTexts == {ExWord, ExPhone, ExPhone \o <<" ">> \o ExSsnHyphen}

\* w's locals changed to the record's fields
Local(w, fields) ==
    [workers EXCEPT ![w] = [f \in DOMAIN workers[w] |->
                               IF f \in DOMAIN fields THEN fields[f] ELSE workers[w][f]]]

\* worker w calls redactor.redact(s): the falsy-argument return, the two locals
WCall(w, s) ==
    /\ workers[w].pc = "idle"
    /\ IF Len(s) = 0
       THEN workers' = Local(w, [pc |-> "returned", text |-> s, result |-> EmptyResult])
       ELSE workers' = Local(w, [pc |-> "loop", text |-> s, redacted_text |-> s,
                                 redactions |-> EmptyDict, idx |-> 1])
    /\ UNCHANGED <<preserve_emails, stats, callVars, zendeskVars>>

\* the first entry of PATTERNS from k on that the loop neither skips nor finds
\* absent from s; NumRules + 1 when there is none
RECURSIVE NextMatch(_, _, _)
NextMatch(k, s, preserve) ==
    IF k > NumRules THEN k
    ELSE IF Skipped(k, preserve) \/ Len(findall(PATTERNS[k].pattern, s)) = 0
    THEN NextMatch(k + 1, s, preserve)
    ELSE k

\* w's loop up to the next stats update: the iterations that find nothing (they
\* change the loop position alone, which no other worker reads), then the
\* email test, findall, the `if matches:` test, count and the call's own
\* redactions entry of the iteration that finds something
WFind(w) ==
    /\ workers[w].pc = "loop"
    /\ workers[w].idx <= NumRules
    /\ LET k == NextMatch(workers[w].idx, workers[w].redacted_text, preserve_emails)
           count == Len(findall(PATTERNS[k].pattern, workers[w].redacted_text))
       IN  IF k > NumRules
           THEN workers' = Local(w, [idx |-> k])
           ELSE workers' = Local(w, [pc |-> "read_total", idx |-> k, count |-> count,
                                     redactions |-> Put(workers[w].redactions,
                                                        PATTERNS[k].pii_type, count)])
    /\ UNCHANGED <<preserve_emails, stats, callVars, zendeskVars>>

\* the read of self.stats['total'] in `self.stats['total'] += count`
WReadTotal(w) ==
    /\ workers[w].pc = "read_total"
    /\ workers' = Local(w, [pc |-> "write_total", read |-> stats.total])
    /\ UNCHANGED <<preserve_emails, stats, callVars, zendeskVars>>

\* the store of `self.stats['total'] += count`
WWriteTotal(w) ==
    /\ workers[w].pc = "write_total"
    /\ stats' = [stats EXCEPT !.total = workers[w].read + workers[w].count]
    /\ workers' = Local(w, [pc |-> "read_type"])
    /\ UNCHANGED <<preserve_emails, callVars, zendeskVars>>

\* self.stats['by_type'].get(pii_type, 0)
WReadType(w) ==
    /\ workers[w].pc = "read_type"
    /\ workers' = Local(w, [pc |-> "write_type",
                            read |-> Get(stats.by_type, PATTERNS[workers[w].idx].pii_type)])
    /\ UNCHANGED <<preserve_emails, stats, callVars, zendeskVars>>

\* the store into self.stats['by_type'][pii_type], then re.sub on the call's
\* own redacted_text and the loop's next entry
WWriteType(w) ==
    /\ workers[w].pc = "write_type"
    /\ LET r == PATTERNS[workers[w].idx]
       IN  /\ stats' = [stats EXCEPT !.by_type =
                           Put(stats.by_type, r.pii_type, workers[w].read + workers[w].count)]
           /\ workers' = Local(w, [pc |-> "loop", idx |-> workers[w].idx + 1,
                                   redacted_text |-> sub(r.pattern, r.replacement,
                                                         workers[w].redacted_text)])
    /\ UNCHANGED <<preserve_emails, callVars, zendeskVars>>

\* the return statement with the instance's by_type in place of the call's dict
WReturn_instanceDict(w) ==
    /\ workers[w].pc = "loop"
    /\ workers[w].idx = NumRules + 1
    /\ workers' = Local(w, [pc |-> "returned",
                            result |-> [returned |-> TRUE,
                                        redacted_text |-> workers[w].redacted_text,
                                        redactions |-> stats.by_type,
                                        has_pii |-> Cardinality(DOMAIN stats.by_type) > 0]])
    /\ UNCHANGED <<preserve_emails, stats, callVars, zendeskVars>>

\* w's return statement after the loop
WReturn(w) ==
    /\ workers[w].pc = "loop"
    /\ workers[w].idx = NumRules + 1
    /\ workers' = Local(w, [pc |-> "returned",
                            result |-> [returned |-> TRUE,
                                        redacted_text |-> workers[w].redacted_text,
                                        redactions |-> workers[w].redactions,
                                        has_pii |->
                                            Cardinality(DOMAIN workers[w].redactions) > 0]])
    /\ UNCHANGED <<preserve_emails, stats, callVars, zendeskVars>>

\* redactor = PIIRedactor(preserve_emails=True)
InitWorkers == Init /\ preserve_emails = TRUE

NextWorkers ==
    \/ \E w \in Workers, s \in WorkerTexts : WCall(w, s)
    \/ \E w \in Workers : WFind(w)
    \/ \E w \in Workers : WReadTotal(w)
    \/ \E w \in Workers : WWriteTotal(w)
    \/ \E w \in Workers : WReadType(w)
    \/ \E w \in Workers : WWriteType(w)
    \/ \E w \in Workers : WReturn(w)

SpecWorkers == InitWorkers /\ [][NextWorkers]_vars

(***************************************************************************)
(* Vocabulary of the properties.                                           *)
(***************************************************************************)
\* the positions at which the sequence p occurs in s
Occurrences(s, p) ==
    {i \in 0..(Len(s) - Len(p)) : SubSeq(s, i + 1, i + Len(p)) = p}
Occ(s, p) == Cardinality(Occurrences(s, p))
Contains(s, p) == Occurrences(s, p) # {}

\* the matched text of a span
SpanText(s, span) == SubSeq(s, span[1] + 1, span[2])

\* s holds one of the table's placeholders
HasPlaceholder(s) == \E k \in 1..NumRules : Contains(s, PATTERNS[k].replacement)

\* the place of a pii_type in the table
Position(name) == CHOOSE k \in 1..NumRules : PATTERNS[k].pii_type = name

\* the table entry of a pii_type
RuleOf(name) == PATTERNS[CHOOSE k \in 1..NumRules : PATTERNS[k].pii_type = name]

\* the sum of f over the finite set S
RECURSIVE SumOver(_, _)
SumOver(S, f) ==
    IF S = {} THEN 0
    ELSE LET x == CHOOSE y \in S : TRUE IN f[x] + SumOver(S \ {x}, f)

\* a call on a non-empty string has returned
ReturnedText == pc = "returned" /\ text.kind = "str" /\ Truthy(text)

(***************************************************************************)
(* The ticketing side.  A tag is a string, kept as the sequence of its     *)
(* characters so that startswith is the test the code makes.  A comment is *)
(* kept by what its body is: the analysis note update_ticket builds, with  *)
(* the headings get_existing_ai_comment searches for, the note of          *)
(* TicketProcessor, which has none of them, or an agent's comment.         *)
(***************************************************************************)
AiPrefix == <<"a", "i", "_">>
ai_processed == <<"a", "i", "_", "p", "r", "o", "c", "e", "s", "s", "e", "d">>
Underscore == <<"_">>

\* tag.startswith(prefix)
startswith(tag, prefix) ==
    Len(tag) >= Len(prefix) /\ SubSeq(tag, 1, Len(prefix)) = prefix

\* the values an analysis holds
Bug == <<"b", "u", "g">>
Refund == <<"r", "e", "f", "u", "n", "d">>
Low == <<"l", "o", "w">>
Medium == <<"m", "e", "d", "i", "u", "m">>
High == <<"h", "i", "g", "h">>
Critical == <<"c", "r", "i", "t", "i", "c", "a", "l">>
Neutral == <<"n", "e", "u", "t", "r", "a", "l">>
Negative == <<"n", "e", "g", "a", "t", "i", "v", "e">>

\* the analyses the LLM returns
Analyses ==
    {[summary |-> "login fails", root_cause |-> Bug, urgency |-> High,
      sentiment |-> Negative],
     [summary |-> "asks for a refund", root_cause |-> Refund, urgency |-> Low,
      sentiment |-> Neutral]}
NoAnalysis == [summary |-> "", root_cause |-> <<>>, urgency |-> <<>>, sentiment |-> <<>>]

\* the tags agents put on tickets, a tag an earlier analysis left, and a tag that
\* starts with ai and not with ai_
Vip == <<"v", "i", "p">>
Aid == <<"a", "i", "d">>
AiFeature == <<"a", "i", "_", "f", "e", "a", "t", "u", "r", "e">>

\* the dates of a run that passes midnight
Dates == <<<<"2", "0", "2", "6", "1", "1", "0", "5">>, <<"2", "0", "2", "6", "1", "1", "0", "6">>>>

map_urgency_to_priority(urgency) ==
    CASE urgency = Low      -> "low"
      [] urgency = Medium   -> "normal"
      [] urgency = High     -> "high"
      [] urgency = Critical -> "urgent"
      [] OTHER              -> "normal"

\* the members of a list
ToSet(list) == {list[i] : i \in DOMAIN list}

\* list(set): the members in some order, each once
RECURSIVE ListOf(_)
ListOf(S) ==
    IF S = {} THEN <<>>
    ELSE LET x == CHOOSE y \in S : TRUE IN <<x>> \o ListOf(S \ {x})

ai_tags(analysis) ==
    <<ai_processed, AiPrefix \o analysis.root_cause, AiPrefix \o analysis.urgency,
      AiPrefix \o analysis.sentiment>>

\* the tag cleanup without its filter
cleaned_tags_keepAll(existing_tags) == existing_tags

\* [tag for tag in existing_tags if not tag.startswith('ai_') or tag == 'ai_processed']
cleaned_tags(existing_tags) ==
    SelectSeq(existing_tags, LAMBDA tag : ~startswith(tag, AiPrefix) \/ tag = ai_processed)

\* list(set(cleaned_tags + ai_tags)), then the ai_processed_<date> tag appended
all_tags(existing_tags, analysis, date) ==
    Append(ListOf(ToSet(cleaned_tags(existing_tags) \o ai_tags(analysis))),
           ai_processed \o Underscore \o date)

\* the comment update_ticket builds: headings, the analysis, the update indicator
AnalysisComment(analysis, updated) ==
    [kind |-> "ai_analysis", analysis |-> analysis, updated |-> updated]
\* the internal note TicketProcessor builds
ServiceNote(analysis) == [kind |-> "service_note", analysis |-> analysis, updated |-> FALSE]
\* a comment an agent wrote
AgentComment == [kind |-> "agent", analysis |-> NoAnalysis, updated |-> FALSE]

\* the body holds one of ai_patterns and the three headings
IsAIComment(comment) == comment.kind = "ai_analysis"

\* get_existing_ai_comment: the ticket's AI Analysis comments, and no comment
\* found when the request for the comments fails
get_existing_ai_comment(comments, lookup_ok) ==
    LET ai_comments == SelectSeq(comments, IsAIComment)
    IN  IF lookup_ok /\ Len(ai_comments) > 0
        THEN [exists |-> TRUE, duplicate_count |-> Len(ai_comments)]
        ELSE [exists |-> FALSE, duplicate_count |-> 0]

\* what Zendesk does with PUT /tickets/{id}.json: the tags become the payload's,
\* the priority too when the payload has one, and a comment in the payload is
\* added to the ticket's comments
ZendeskPut(tk, payload) ==
    [tk EXCEPT !.tags = payload.tags,
               !.priority = IF payload.priority = "none" THEN @ ELSE payload.priority,
               !.comments = IF payload.has_comment THEN Append(@, payload.comment) ELSE @]

\* what update_ticket returns
NotUpdated ==
    [called |-> FALSE, updated |-> FALSE, skipped |-> FALSE, reason |-> "",
     comment_added |-> FALSE, comment_updated |-> FALSE, error |-> FALSE]
UpdateSkipped == [NotUpdated EXCEPT !.called = TRUE, !.skipped = TRUE,
                                    !.reason = "already_has_ai_comment"]
UpdateFailed == [NotUpdated EXCEPT !.called = TRUE, !.error = TRUE]
Updated(has_existing_comment, force) ==
    [NotUpdated EXCEPT !.called = TRUE, !.updated = TRUE,
                       !.comment_added = ~has_existing_comment,
                       !.comment_updated = has_existing_comment /\ force]

\* update_ticket of src/Ai_ticket_processor.py on the ticket tk: the ticket after
\* the call and what the call returns.  existing_ticket is the dict the caller
\* passes; date is today's.
update_ticket(tk, analysis, existing_ticket, force, lookup_ok, put_ok, date) ==
    LET existing_comment_info == get_existing_ai_comment(tk.comments, lookup_ok)
        has_existing_comment == existing_comment_info.exists
        existing_tags == existing_ticket.tags
        payload == [tags |-> all_tags(existing_tags, analysis, date),
                    priority |-> map_urgency_to_priority(analysis.urgency),
                    has_comment |-> (has_existing_comment /\ force)
                                    \/ ~has_existing_comment,
                    comment |-> AnalysisComment(analysis, has_existing_comment /\ force)]
    IN  IF has_existing_comment /\ ~force
        THEN [ticket |-> tk, result |-> UpdateSkipped]
        ELSE IF ~put_ok
        THEN [ticket |-> tk, result |-> UpdateFailed]
        ELSE [ticket |-> ZendeskPut(tk, payload),
              result |-> Updated(has_existing_comment, force)]

\* update_ticket of src/update_ticket.py: it fetches the ticket for its tags and
\* sends no priority
script_update_ticket(tk, analysis, force, lookup_ok, get_ok, put_ok, date) ==
    LET existing_comment_info == get_existing_ai_comment(tk.comments, lookup_ok)
        has_existing_comment == existing_comment_info.exists
        existing_tags == tk.tags
        payload == [tags |-> all_tags(existing_tags, analysis, date),
                    priority |-> "none",
                    has_comment |-> (has_existing_comment /\ force)
                                    \/ ~has_existing_comment,
                    comment |-> AnalysisComment(analysis, has_existing_comment)]
    IN  IF has_existing_comment /\ ~force
        THEN [ticket |-> tk, result |-> UpdateSkipped]
        ELSE IF ~get_ok \/ ~put_ok
        THEN [ticket |-> tk, result |-> UpdateFailed]
        ELSE [ticket |-> ZendeskPut(tk, payload),
              result |-> Updated(has_existing_comment, force)]

\* 'ai_processed' in ticket.get('tags', [])
is_ticket_already_processed(tk) == ai_processed \in ToSet(tk.tags)

\* not s.strip()
IsBlank(s) == \A i \in DOMAIN s : s[i] \in White

\* the instance's stats after a call that returned the redactions dict red
AddStats(st, red) ==
    [total |-> st.total + SumOver(DOMAIN red, red),
     by_type |-> [c \in DOMAIN st.by_type \cup DOMAIN red |->
                     Get(st.by_type, c) + Get(red, c)]]

\* a request to the LLM: the path that sent it, the subject and the description
\* placed in the prompt, and the text of the ticket's fields they were made from
Request(path, subject, subject_of, description, description_of) ==
    [path |-> path, subject |-> subject, subject_of |-> subject_of,
     description |-> description, description_of |-> description_of]

\* what process_ticket returns
ProcessResult(success, skipped, reason, updated) ==
    [success |-> success, skipped |-> skipped, reason |-> reason, updated |-> updated]

\* the record of an operation
Op(op, force, analysis, before, update, res, llm_calls) ==
    [op |-> op, force |-> force, analysis |-> analysis, before |-> before,
     update |-> update, result |-> res, llm_calls |-> llm_calls]

\* the ticket operations of a run
MaxOps == 2

\* main fetches the ticket from Zendesk
Fetch ==
    /\ fetched # ticket
    /\ fetched' = ticket
    /\ UNCHANGED <<preserve_emails, stats, callVars, workers, ticket, llm_requests,
                   today, ops, last>>

\* the date changes during the run
Midnight ==
    /\ today = Dates[1]
    /\ today' = Dates[2]
    /\ UNCHANGED <<preserve_emails, stats, callVars, workers, ticket, fetched,
                   llm_requests, ops, last>>

\* process_ticket(fetched, force=force) of src/Ai_ticket_processor.py, with
\* analyze_with_openai and update_ticket as it calls them.  llm_ok: the analysis
\* request succeeds and returns analysis.
ProcessTicket(force, llm_ok, analysis, lookup_ok, put_ok) ==
    /\ ops < MaxOps
    /\ fetched # NoTicket
    /\ ops' = ops + 1
    /\ LET description == IF Len(fetched.description) > 0 THEN fetched.description
                          ELSE fetched.subject
           redaction_result == redact(description, preserve_emails)
           clean_description == redaction_result.redacted_text
           request == Request("analyze_with_openai", <<>>, <<>>,
                              clean_description, description)
           draft == Request("generate_reply_draft", <<>>, <<>>, <<>>, <<>>)
           outcome == update_ticket(ticket, analysis, fetched, force, lookup_ok,
                                    put_ok, today)
       IN  IF IsBlank(description)
           THEN /\ last' = Op("process_ticket", force, NoAnalysis, ticket,
                              NotUpdated, ProcessResult(FALSE, FALSE, "", FALSE), 0)
                /\ UNCHANGED <<stats, ticket, llm_requests>>
           ELSE IF ~force /\ is_ticket_already_processed(fetched)
           THEN /\ last' = Op("process_ticket", force, NoAnalysis, ticket,
                              NotUpdated,
                              ProcessResult(TRUE, TRUE, "already_processed", FALSE), 0)
                /\ UNCHANGED <<stats, ticket, llm_requests>>
           ELSE /\ stats' = AddStats(stats, redaction_result.redactions)
                /\ IF ~llm_ok
                   THEN /\ llm_requests' = llm_requests \cup {request}
                        /\ last' = Op("process_ticket", force, NoAnalysis,
                                      ticket, NotUpdated,
                                      ProcessResult(FALSE, FALSE, "", FALSE), 1)
                        /\ UNCHANGED ticket
                   ELSE /\ llm_requests' = llm_requests \cup {request, draft}
                        /\ ticket' = outcome.ticket
                        /\ last' = Op("process_ticket", force, analysis,
                                      ticket, outcome.result,
                                      IF outcome.result.skipped
                                      THEN ProcessResult(TRUE, TRUE,
                                                         outcome.result.reason, FALSE)
                                      ELSE ProcessResult(TRUE, FALSE, "",
                                                         outcome.result.updated),
                                      2)
    /\ UNCHANGED <<preserve_emails, callVars, workers, fetched, today>>

\* update_ticket(ticket_id, analysis, force=force) of src/update_ticket.py
ScriptUpdate(analysis, force, lookup_ok, get_ok, put_ok) ==
    /\ ops < MaxOps
    /\ ops' = ops + 1
    /\ LET outcome == script_update_ticket(ticket, analysis, force, lookup_ok, get_ok,
                                           put_ok, today)
       IN  /\ ticket' = outcome.ticket
           /\ last' = Op("update_ticket", force, analysis, ticket,
                         outcome.result, ProcessResult(FALSE, FALSE, "", FALSE), 0)
    /\ UNCHANGED <<preserve_emails, stats, callVars, workers, fetched, llm_requests,
                   today>>

\* analyze_ticket(subject, description) of src/analyze_ticket.py on the ticket's
\* fields, with generate_reply_draft as it calls it
AnalyzeTicket(llm_ok) ==
    /\ ops < MaxOps
    /\ ops' = ops + 1
    /\ LET subject_redaction == redact(ticket.subject, preserve_emails)
           description_redaction == redact(ticket.description, preserve_emails)
           subject_clean == subject_redaction.redacted_text
           description_clean == description_redaction.redacted_text
           request == Request("analyze_ticket", subject_clean, ticket.subject,
                              description_clean, ticket.description)
           draft == Request("generate_reply_draft", subject_clean, ticket.subject,
                            <<>>, <<>>)
       IN  /\ stats' = AddStats(AddStats(stats, subject_redaction.redactions),
                                description_redaction.redactions)
           /\ llm_requests' = llm_requests \cup
                                  (IF llm_ok THEN {request, draft} ELSE {request})
           /\ last' = Op("analyze_ticket", FALSE, NoAnalysis, ticket, NotUpdated,
                         ProcessResult(llm_ok, FALSE, "", FALSE),
                         IF llm_ok THEN 2 ELSE 1)
    /\ UNCHANGED <<preserve_emails, callVars, workers, ticket, fetched, today>>

\* the tags TicketProcessor writes
ServiceProcessed == <<"a", "i", "-", "p", "r", "o", "c", "e", "s", "s", "e", "d">>
CategoryPrefix == <<"c", "a", "t", "e", "g", "o", "r", "y", ":">>
UrgencyPrefix == <<"u", "r", "g", "e", "n", "c", "y", ":">>
SentimentPrefix == <<"s", "e", "n", "t", "i", "m", "e", "n", "t", ":">>

\* TicketProcessor.process_ticket of src/ticket_processor.py, with
\* OpenAIService.analyze_ticket and ZendeskService.update_ticket as it calls them
ServiceProcess(analysis, put_ok) ==
    /\ ops < MaxOps
    /\ ops' = ops + 1
    /\ LET request == Request("OpenAIService.analyze_ticket", ticket.subject,
                              ticket.subject, ticket.description, ticket.description)
           tags == <<ServiceProcessed, CategoryPrefix \o analysis.root_cause,
                     UrgencyPrefix \o analysis.urgency,
                     SentimentPrefix \o analysis.sentiment>>
           payload == [tags |-> tags, priority |-> "none", has_comment |-> TRUE,
                       comment |-> ServiceNote(analysis)]
       IN  /\ llm_requests' = llm_requests \cup {request}
           /\ ticket' = IF put_ok THEN ZendeskPut(ticket, payload) ELSE ticket
           /\ last' = Op("TicketProcessor.process_ticket", FALSE, analysis,
                         ticket, NotUpdated, ProcessResult(TRUE, FALSE, "", put_ok), 1)
    /\ UNCHANGED <<preserve_emails, stats, callVars, workers, fetched, today>>

\* a ticket as it is before any of the scripts ran on it
Ticket(tags, comments, subject, description) ==
    [tags |-> tags, comments |-> comments, priority |-> "none",
     subject |-> subject, description |-> description]

\* the tickets of a tagging run: untouched; tagged and commented by agents, with a
\* tag an earlier analysis left and no description; with a blank description
InitialTickets ==
    {Ticket(<<>>, <<>>, ExWord, ExWord),
     Ticket(<<Vip, Aid, AiFeature>>, <<AgentComment>>, ExWord, <<>>),
     Ticket(<<Vip>>, <<>>, ExWord, <<" ">>)}

\* the tickets of a classification run: personal data in the description, in the
\* subject of a ticket without description, in both
PathTickets ==
    {Ticket(<<>>, <<>>, ExWord, ExPhone),
     Ticket(<<Vip>>, <<AgentComment>>, ExPhone, <<>>),
     Ticket(<<>>, <<>>, ExEmail, ExSsnHyphen)}

\* the scripts start on one of the tickets, with the module's redactor
InitBatch(tickets) ==
    /\ preserve_emails = TRUE
    /\ stats = [total |-> 0, by_type |-> EmptyDict]
    /\ pc = "idle"
    /\ text = PyNone
    /\ redacted_text = <<>>
    /\ redactions = EmptyDict
    /\ idx = 0
    /\ result = NoResult
    /\ calls = 0
    /\ history = <<>>
    /\ seen = <<>>
    /\ workers = [w \in Workers |-> IdleWorker]
    /\ ticket \in tickets
    /\ fetched = NoTicket
    /\ llm_requests = {}
    /\ today = Dates[1]
    /\ ops = 0
    /\ last = NoOp

InitTickets == InitBatch(InitialTickets)
InitPaths == InitBatch(PathTickets)

\* the runs of the two scripts that tag and comment a ticket
NextTickets ==
    \/ Fetch
    \/ Midnight
    \/ \E force, llm_ok, lookup_ok, put_ok \in BOOLEAN, analysis \in Analyses :
           ProcessTicket(force, llm_ok, analysis, lookup_ok, put_ok)
    \/ \E force, lookup_ok, get_ok, put_ok \in BOOLEAN, analysis \in Analyses :
           ScriptUpdate(analysis, force, lookup_ok, get_ok, put_ok)

SpecTickets == InitTickets /\ [][NextTickets]_vars

\* every path of the repository that classifies a ticket
NextPaths ==
    \/ Fetch
    \/ \E force, llm_ok, lookup_ok, put_ok \in BOOLEAN, analysis \in Analyses :
           ProcessTicket(force, llm_ok, analysis, lookup_ok, put_ok)
    \/ \E llm_ok \in BOOLEAN : AnalyzeTicket(llm_ok)
    \/ \E put_ok \in BOOLEAN, analysis \in Analyses : ServiceProcess(analysis, put_ok)

SpecPaths == InitPaths /\ [][NextPaths]_vars

(***************************************************************************)
(* C1.  Redacting the redacted_text a call returned, with the same         *)
(* preserve_emails, finds nothing: has_pii is false and redactions is      *)
(* empty, for every input that holds no placeholder.                       *)
(***************************************************************************)
C1_SecondPassFindsNothing ==
    (ReturnedText /\ ~HasPlaceholder(text.chars)) =>
        LET again == redact(result.redacted_text, preserve_emails)
        IN  ~again.has_pii /\ DOMAIN again.redactions = {}

(***************************************************************************)
(* C2.  No rule of a call matches text that overlaps a placeholder an      *)
(* earlier rule of the call inserted, and every placeholder the call       *)
(* inserted is in the returned redacted_text: for each placeholder, as     *)
(* many occurrences as the rules that use it counted.                      *)
(***************************************************************************)
\* rule e of the call matched a span that overlaps a placeholder already inserted
OverlapsPlaceholder(j) ==
    LET e == seen[j]
        spans == findall(RuleOf(e.pii_type).pattern, e.on)
    IN  \E n \in 1..Len(spans), i \in 1..(j - 1) :
            /\ seen[i].after # seen[i].on
            /\ \E q \in Occurrences(e.on, RuleOf(seen[i].pii_type).replacement) :
                  spans[n][1] < q + Len(RuleOf(seen[i].pii_type).replacement)
                  /\ q < spans[n][2]

\* how many insertions of the placeholder repl the call counted
Counted(repl) ==
    SumOver({c \in DOMAIN result.redactions : RuleOf(c).replacement = repl},
            result.redactions)

C2_PlaceholdersStay ==
    (ReturnedText /\ ~HasPlaceholder(text.chars)) =>
        /\ \A j \in 1..Len(seen) : ~OverlapsPlaceholder(j)
        /\ \A k \in 1..NumRules :
              Occ(result.redacted_text, PATTERNS[k].replacement)
                  >= Counted(PATTERNS[k].replacement)

(***************************************************************************)
(* C3.  A call evaluates the rules in the canonical order, each at most    *)
(* once, and searches for rule k in the text as rules 1..k-1 left it: the  *)
(* first rule searches the argument, every later rule the text its         *)
(* predecessor produced, and the working string is what the last rule      *)
(* evaluated produced.  A call that returns has evaluated every rule but   *)
(* a skipped email rule.                                                   *)
(***************************************************************************)
CanonicalOrder ==
    <<"credit_card", "iban", "account_number", "phone_india_code", "phone_india",
      "aadhaar", "pan_card", "ifsc", "uk_ni", "uk_sort", "au_medicare", "us_ssn",
      "us_routing", "au_tfn_ca_sin", "email">>

C3_CanonicalOrder ==
    (text.kind = "str" /\ Truthy(text)) =>
        /\ Len(seen) <= Len(CanonicalOrder)
        /\ \A j \in 1..Len(seen) :
              /\ seen[j].pii_type = CanonicalOrder[j]
              /\ seen[j].on = IF j = 1 THEN text.chars ELSE seen[j - 1].after
        /\ redacted_text = IF seen = <<>> THEN text.chars ELSE seen[Len(seen)].after
        /\ pc = "returned" =>
              Len(seen) = IF preserve_emails THEN Len(CanonicalOrder) - 1
                          ELSE Len(CanonicalOrder)

\* a call has returned after two of its rules rewrote the text
C3_Witness ==
    /\ ReturnedText
    /\ \E i, j \in 1..Len(seen) :
          /\ i < j
          /\ seen[i].after # seen[i].on
          /\ seen[j].after # seen[j].on
          /\ seen[j].on # text.chars

(***************************************************************************)
(* C4.  A 16-digit card number written in four groups of four, set off     *)
(* from the text before or after it by a separator, is counted once as     *)
(* credit_card and adds nothing to any other category: next to another     *)
(* fragment, credit_card counts one more than the fragment alone gives,    *)
(* and no other category counts more than the fragment alone gives.        *)
(***************************************************************************)
CardForms == {ExCardHyphen, ExCardSpaced, ExCardPlain}

C4_CardCountedOnce ==
    ReturnedText =>
        \A card \in CardForms, other \in Fragments, s \in Separators \ {<<>>} :
            text.chars \in {card \o s \o other, other \o s \o card} =>
                LET alone == redact(other, preserve_emails).redactions
                IN  /\ Get(result.redactions, "credit_card")
                           = 1 + Get(alone, "credit_card")
                    /\ \A c \in Categories \ {"credit_card"} :
                           Get(result.redactions, c) <= Get(alone, c)

(***************************************************************************)
(* C5.  With preserve_emails true, every email address of the input (every *)
(* match of the email pattern in the argument) is in the returned          *)
(* redacted_text as it was written.                                        *)
(***************************************************************************)
C5_EmailsVerbatim ==
    (ReturnedText /\ preserve_emails) =>
        LET found == findall(email.pattern, text.chars)
        IN  \A n \in 1..Len(found) :
                Contains(result.redacted_text, SpanText(text.chars, found[n]))

(***************************************************************************)
(* C7.  A text made of N instances of a category's canonical example, one  *)
(* after another with a space or a comma and a space between them, in      *)
(* which no earlier rule finds a match, gives redactions[category] = N.    *)
(***************************************************************************)
\* the canonical example of each rule, in table order
Canonical ==
    <<ExCardHyphen, ExIbanPlain, ExAccountNo, ExPhoneCode, ExPhone, ExAadhaar, ExPan,
      ExIfsc, ExUkNi, ExSortCode, ExMedicare, ExSsnHyphen, ExRouting, ExTaxId, ExEmail>>

C7_CountsEveryInstance ==
    ReturnedText =>
        \A k \in 1..NumRules, s \in Separators \ {<<>>}, n \in 0..MaxRepeat :
            ( /\ text.chars = Canonical[k] \o Repeat(s, Canonical[k], n)
              /\ ~Skipped(k, preserve_emails)
              /\ \A j \in 1..(k - 1) : findall(PATTERNS[j].pattern, text.chars) = <<>> )
            => Get(result.redactions, PATTERNS[k].pii_type) = n + 1

(***************************************************************************)
(* C10.  A call whose argument is a value that is not text (an integer, a  *)
(* list, a boolean) ends by raising and returns no result.                 *)
(***************************************************************************)
C10_NonTextRaises ==
    (calls > 0 /\ text.kind \notin {"str", "None"} /\ pc \in {"returned", "raised"})
        => (pc = "raised" /\ ~result.returned)

(***************************************************************************)
(* C6.  With preserve_emails true the email rule is never evaluated: no    *)
(* call puts "email" into its redactions, its result or the instance's     *)
(* stats, nor [EMAIL_REDACTED] into the text.  With preserve_emails false  *)
(* the email rule is the last one evaluated, and every match of the email  *)
(* pattern in the text the earlier rules left is counted under "email"     *)
(* and replaced by [EMAIL_REDACTED].                                       *)
(***************************************************************************)
RECURSIVE SpanChars(_, _)
SpanChars(spans, n) ==
    IF n > Len(spans) THEN 0
    ELSE (spans[n][2] - spans[n][1]) + SpanChars(spans, n + 1)

C6_EmailRuleGated ==
    /\ preserve_emails =>
          /\ "email" \notin DOMAIN redactions
          /\ "email" \notin DOMAIN result.redactions
          /\ "email" \notin DOMAIN stats.by_type
          /\ \A j \in 1..Len(seen) : seen[j].pii_type # "email"
          /\ Occ(redacted_text, email.replacement) = Occ(text.chars, email.replacement)
          /\ Occ(result.redacted_text, email.replacement)
                 <= Occ(text.chars, email.replacement)
    /\ (~preserve_emails /\ ReturnedText) =>
          LET e == seen[Len(seen)]
              found == findall(email.pattern, e.on)
          IN  /\ e.pii_type = "email"
              /\ Get(result.redactions, "email") = Len(found)
              /\ "email" \in DOMAIN result.redactions <=> Len(found) > 0
              /\ Get(stats.by_type, "email") >= Len(found)
              /\ Occ(result.redacted_text, email.replacement)
                     = Occ(e.on, email.replacement) + Len(found)
              /\ Len(result.redacted_text)
                     = Len(e.on) - SpanChars(found, 1) + Len(found) * Len(email.replacement)
              /\ findall(email.pattern, result.redacted_text) = <<>>

\* a call with preserve_emails false has replaced two email addresses
C6_Witness ==
    /\ ~preserve_emails
    /\ ReturnedText
    /\ Get(result.redactions, "email") = 2
    /\ Occ(result.redacted_text, email.replacement) = 2

(***************************************************************************)
(* C8.  In every result, redactions holds exactly the categories whose     *)
(* rule rewrote the text in that call, each with the number of             *)
(* placeholders the rule put in, which is positive; has_pii is true        *)
(* exactly when redactions is not empty.                                   *)
(***************************************************************************)
\* how many placeholders the j-th rule evaluated put into the text
Inserted(j) ==
    LET repl == RuleOf(seen[j].pii_type).replacement
    IN  Occ(seen[j].after, repl) - Occ(seen[j].on, repl)

C8_RedactionsCountReplacements ==
    pc = "returned" =>
        /\ result.returned
        /\ result.has_pii <=> (DOMAIN result.redactions # {})
        /\ DOMAIN result.redactions
               = {seen[j].pii_type : j \in {i \in 1..Len(seen) : seen[i].after # seen[i].on}}
        /\ \A j \in 1..Len(seen) :
               seen[j].after # seen[j].on =>
                   /\ result.redactions[seen[j].pii_type] = Inserted(j)
                   /\ Inserted(j) > 0

\* a result with two categories, one of them counted more than once
C8_Witness ==
    /\ ReturnedText
    /\ result.has_pii
    /\ Cardinality(DOMAIN result.redactions) >= 2
    /\ \E c \in DOMAIN result.redactions : result.redactions[c] >= 2

(***************************************************************************)
(* C9.  A call with the empty string or None as its argument returns at    *)
(* once, without raising: the result is redacted_text "", redactions {}    *)
(* and has_pii false, and the instance's stats are what they were.         *)
(***************************************************************************)
C9_EmptyInput ==
    [][ (text' \in {PyNone, PyStr(<<>>)} /\ calls' > calls)
            => (pc' = "returned" /\ result' = EmptyResult /\ stats' = stats) ]_vars

\* an empty call has returned on an instance whose stats are not empty
C9_Witness ==
    /\ pc = "returned"
    /\ text \in {PyNone, PyStr(<<>>)}
    /\ result = EmptyResult
    /\ stats.total > 0

(***************************************************************************)
(* C11.  A call on a text in which no active rule's pattern matches        *)
(* returns the text as it was, with redactions {} and has_pii false, and   *)
(* no step of the call changes the instance's stats.                       *)
(***************************************************************************)
\* v is a non-empty string in which no rule the loop applies finds a match
Clean(v) ==
    /\ v.kind = "str"
    /\ Truthy(v)
    /\ \A k \in 1..NumRules :
          Skipped(k, preserve_emails) \/ findall(PATTERNS[k].pattern, v.chars) = <<>>

C11_CleanTextNoOp ==
    [][ Clean(text') =>
            /\ stats' = stats
            /\ pc' # "raised"
            /\ pc' = "returned" =>
                  result' = [returned |-> TRUE, redacted_text |-> text'.chars,
                             redactions |-> EmptyDict, has_pii |-> FALSE] ]_vars

\* a call on a clean text has returned on an instance whose stats are not empty
C11_Witness ==
    /\ pc = "returned"
    /\ Clean(text)
    /\ result.redacted_text = text.chars
    /\ stats.total > 0

(***************************************************************************)
(* C12.  A card number of 13 to 19 digits standing alone, written without  *)
(* separators or in groups of four with spaces or hyphens, is replaced in  *)
(* full by [CREDIT_CARD_REDACTED] and counted once under credit_card.      *)
(***************************************************************************)
C12_CardsOfEveryLength ==
    (ReturnedText /\ text.chars \in CardTexts) =>
        /\ result.redacted_text = credit_card.replacement
        /\ DOMAIN result.redactions = {"credit_card"}
        /\ result.redactions["credit_card"] = 1

(***************************************************************************)
(* C13.  An IBAN standing alone, written contiguously or in groups of four *)
(* separated by spaces, is replaced as a whole by one [IBAN_REDACTED]:     *)
(* the returned text is the placeholder and nothing else.                  *)
(***************************************************************************)
C13_WholeIbanReplaced ==
    (ReturnedText /\ text.chars \in IbanTexts) =>
        /\ result.redacted_text = iban.replacement
        /\ DOMAIN result.redactions = {"iban"}
        /\ result.redactions["iban"] = 1

(***************************************************************************)
(* C14.  A 10-digit number that starts with 6-9 and is followed by the end *)
(* of the text, a space, punctuation or a space and anything is replaced   *)
(* by [PHONE_REDACTED] and counted once under phone_india; followed        *)
(* directly by a digit, it is left alone.                                  *)
(***************************************************************************)
C14_StandalonePhone ==
    ReturnedText =>
        \A d \in PhoneLeading, tail \in PhoneTails :
            text.chars = PhoneOf(d, tail) =>
                IF tail # <<>> /\ tail[1] \in Digit
                THEN /\ "phone_india" \notin DOMAIN result.redactions
                     /\ result.redacted_text = text.chars
                ELSE /\ Get(result.redactions, "phone_india") = 1
                     /\ result.redacted_text = phone_india.replacement \o tail

(***************************************************************************)
(* C15.  'Account No: ' followed by 8 to 18 digits, 16 included, is        *)
(* replaced by 'Account No: [REDACTED]' and counted under account_number   *)
(* and under no other category.                                            *)
(***************************************************************************)
C15_LabeledAccountNumber ==
    (ReturnedText /\ text.chars \in AccountTexts) =>
        /\ result.redacted_text = account_number.replacement
        /\ DOMAIN result.redactions = {"account_number"}
        /\ result.redactions["account_number"] = 1

(***************************************************************************)
(* C16.  A +91 number is counted once, under phone_india_code, and not     *)
(* under phone_india; in a text that holds a bare 10-digit number and a    *)
(* +91 number, each is counted once under its own category, the counts     *)
(* sum to 2, and no digit of either number is in the returned text.        *)
(***************************************************************************)
C16_PhoneCategories ==
    ReturnedText =>
        /\ text.chars \in PhoneCodeTexts =>
              /\ DOMAIN result.redactions = {"phone_india_code"}
              /\ result.redactions["phone_india_code"] = 1
              /\ result.redacted_text = phone_india_code.replacement
        /\ text.chars \in PhonePairTexts =>
              /\ DOMAIN result.redactions = {"phone_india_code", "phone_india"}
              /\ result.redactions["phone_india_code"] = 1
              /\ result.redactions["phone_india"] = 1
              /\ SumOver(DOMAIN result.redactions, result.redactions) = 2
              /\ Occ(result.redacted_text, phone_india.replacement) = 2
              /\ \A i \in 1..Len(result.redacted_text) :
                     result.redacted_text[i] \notin Digit

\* the call on "Call 9876543210 or +91 9876543210" has returned both counts
C16_Witness ==
    /\ ReturnedText
    /\ text.chars = ExWord \o <<" ">> \o ExPhone \o <<" ", "o", "r", " ">> \o ExPhoneCode
    /\ Get(result.redactions, "phone_india_code") = 1
    /\ Get(result.redactions, "phone_india") = 1

(***************************************************************************)
(* C17.  A 9-digit number standing alone is replaced by                    *)
(* [US_ROUTING_REDACTED] and counted once under us_routing when its first  *)
(* digit is 0 or 1, and is not counted under us_routing when its first     *)
(* digit is 2-9.                                                           *)
(***************************************************************************)
C17_RoutingLeadingDigit ==
    ReturnedText =>
        \A d \in Digit :
            text.chars = NineDigitsOf(d) =>
                IF d \in {"0", "1"}
                THEN /\ Get(result.redactions, "us_routing") = 1
                     /\ result.redacted_text = us_routing.replacement
                ELSE "us_routing" \notin DOMAIN result.redactions

(***************************************************************************)
(* C18.  A Medicare number written 4-5-1 with spaces is counted once,      *)
(* under au_medicare, and adds nothing to au_tfn_ca_sin; a number written  *)
(* 3-3-3 with spaces is counted once, under au_tfn_ca_sin.  In every text: *)
(* au_medicare counts the Medicare numbers of the text and au_tfn_ca_sin   *)
(* its 3-3-3 numbers, a number being one that stands between characters    *)
(* that are no word characters and that no earlier rule's pattern matches  *)
(* any part of.                                                            *)
(***************************************************************************)
\* the positions at which ex stands in t as a number of its own, with no
\* match of a rule before the k-th overlapping it
Standalone(t, ex, k) ==
    {i \in Occurrences(t, ex) :
        /\ i = 0 \/ t[i] \notin WordChar
        /\ i + Len(ex) = Len(t) \/ t[i + Len(ex) + 1] \notin WordChar
        /\ \A j \in 1..(k - 1) :
              LET spans == findall(PATTERNS[j].pattern, t)
              IN  \A n \in 1..Len(spans) :
                      spans[n][2] <= i \/ i + Len(ex) <= spans[n][1]}

SharePlaceholder(k) ==
    {PATTERNS[j].pii_type :
        j \in {i \in 1..NumRules : PATTERNS[i].replacement = PATTERNS[k].replacement}}

\* the call put the placeholder of entry k into a text that had none
Inserts(k) ==
    /\ ~HasPlaceholder(text.chars)
    /\ Contains(result.redacted_text, PATTERNS[k].replacement)

C19_PlaceholderPerCategory ==
    ReturnedText =>
        \A k \in 1..NumRules :
            (PATTERNS[k].pii_type # "account_number" /\ Inserts(k)) =>
                /\ SharePlaceholder(k) = {PATTERNS[k].pii_type}
                /\ PATTERNS[k].pii_type \in DOMAIN result.redactions

(***************************************************************************)
(* C19, amended.  Every category but phone_india_code and phone_india,     *)
(* account_number included, has a placeholder that no other category       *)
(* uses; those two share [PHONE_REDACTED].  A placeholder found in the     *)
(* returned text names the category the call counted, or, for              *)
(* [PHONE_REDACTED], a phone category the call counted.                    *)
(***************************************************************************)
PhoneCategories == {"phone_india_code", "phone_india"}

C19_PlaceholderPerCategoryButPhone ==
    ReturnedText =>
        \A k \in 1..NumRules :
            /\ SharePlaceholder(k) = IF PATTERNS[k].pii_type \in PhoneCategories
                                     THEN PhoneCategories
                                     ELSE {PATTERNS[k].pii_type}
            /\ Inserts(k) => SharePlaceholder(k) \cap DOMAIN result.redactions # {}

\* a call has counted a +91 number and a category that is no phone category
C19_Witness ==
    /\ ReturnedText
    /\ ~HasPlaceholder(text.chars)
    /\ "phone_india_code" \in DOMAIN result.redactions
    /\ "phone_india" \notin DOMAIN result.redactions
    /\ Contains(result.redacted_text, phone_india.replacement)
    /\ DOMAIN result.redactions \ PhoneCategories # {}

(***************************************************************************)
(* C20.  As claimed: for any text, redact returns the same redactions for  *)
(* the text, for its upper-cased form and for its lower-cased form.        *)
(***************************************************************************)
SameInEveryCase(t) ==
    /\ redact(upper(t), preserve_emails).redactions = redact(t, preserve_emails).redactions
    /\ redact(lower(t), preserve_emails).redactions = redact(t, preserve_emails).redactions

C20_CaseInsensitive ==
    ReturnedText =>
        /\ result.redactions = redact(text.chars, preserve_emails).redactions
        /\ SameInEveryCase(text.chars)

(***************************************************************************)
(* C20, amended.  For any text of ASCII characters, redact returns the     *)
(* same redactions for the text, for its upper-cased form and for its      *)
(* lower-cased form.                                                       *)
(***************************************************************************)
IsAscii(t) == \A i \in 1..Len(t) : t[i] # SharpS

C20_CaseInsensitiveAscii ==
    (ReturnedText /\ IsAscii(text.chars)) =>
        /\ result.redactions = redact(text.chars, preserve_emails).redactions
        /\ SameInEveryCase(text.chars)

\* a lower-case PAN has been counted
C20_Witness ==
    /\ ReturnedText
    /\ text.chars = lower(ExPan)
    /\ upper(text.chars) # text.chars
    /\ Get(result.redactions, "pan_card") = 1

(***************************************************************************)
(* C21.  What a call returns depends on its argument and on                *)
(* preserve_emails alone: whatever calls the instance has served and       *)
(* whatever its stats hold, the result is the one redact gives as a        *)
(* function of the text and the configuration, which is what an instance   *)
(* that has served no call returns.                                        *)
(***************************************************************************)
C21_ResultIgnoresHistory ==
    (pc = "returned" /\ text.kind = "str") =>
        result = redact(text.chars, preserve_emails)

\* a second call has returned redactions that differ from the instance's stats
C21_Witness ==
    /\ ReturnedText
    /\ calls = 2
    /\ result.has_pii
    /\ stats.by_type # result.redactions
    /\ stats.total > SumOver(DOMAIN result.redactions, result.redactions)

(***************************************************************************)
(* C22.  Between the calls of a run of calls on one instance, stats.total  *)
(* is the sum of all counts of all redactions the calls returned,          *)
(* stats.by_type[c] is the sum of redactions[c] over them, stats.total is  *)
(* the sum of the values of stats.by_type; and no step lowers              *)
(* stats.total or a value of stats.by_type.                                *)
(***************************************************************************)
\* the sum of the counts of category c in the dicts ds[n..]
RECURSIVE ReturnedFor(_, _, _)
ReturnedFor(ds, n, c) ==
    IF n > Len(ds) THEN 0
    ELSE (IF c \in DOMAIN ds[n] THEN ds[n][c] ELSE 0) + ReturnedFor(ds, n + 1, c)

StatsMatchHistory ==
    pc \in {"idle", "returned", "raised"} =>
        /\ stats.total = SumOver(Categories, [c \in Categories |-> ReturnedFor(history, 1, c)])
        /\ DOMAIN stats.by_type = {c \in Categories : ReturnedFor(history, 1, c) > 0}
        /\ \A c \in DOMAIN stats.by_type : stats.by_type[c] = ReturnedFor(history, 1, c)
        /\ stats.total = SumOver(DOMAIN stats.by_type, stats.by_type)

NoCounterDecreases ==
    /\ stats'.total >= stats.total
    /\ \A c \in DOMAIN stats.by_type :
          c \in DOMAIN stats'.by_type /\ stats'.by_type[c] >= stats.by_type[c]

C22_StatsAreRunningSums == []StatsMatchHistory /\ [][NoCounterDecreases]_vars

\* two calls have returned counts for one category
C22_Witness ==
    /\ pc = "returned"
    /\ Len(history) = 2
    /\ \E c \in DOMAIN history[1] \cap DOMAIN history[2] :
           /\ stats.by_type[c] = history[1][c] + history[2][c]
           /\ stats.total = stats.by_type[c]

\* every worker's call has returned
AllReturned == \A w \in Workers : workers[w].pc = "returned"

\* the count of category c in the result worker w's call returned
Returned(w, c) == Get(workers[w].result.redactions, c)

\* the sum over the workers' results of the counts of category c
ReturnedByWorkers(c) == SumOver(Workers, [w \in Workers |-> Returned(w, c)])

(***************************************************************************)
(* C23.  When the pool's workers call redact at once on the shared         *)
(* instance, no increment is lost: once every call has returned,           *)
(* stats.total and each stats.by_type[c] are the sums of the counts in the *)
(* results the calls returned, under every interleaving of the reads and   *)
(* the stores.                                                             *)
(***************************************************************************)
C23_NoIncrementLost ==
    AllReturned =>
        /\ stats.total = SumOver(Categories, [c \in Categories |-> ReturnedByWorkers(c)])
        /\ \A c \in Categories : Get(stats.by_type, c) = ReturnedByWorkers(c)

(***************************************************************************)
(* C30.  Under concurrent calls on the shared instance, the redacted_text, *)
(* redactions and has_pii a call returns are those the same call returns   *)
(* when it runs alone, under every interleaving.                           *)
(***************************************************************************)
C30_ResultAsAlone ==
    \A w \in Workers :
        workers[w].pc = "returned" =>
            workers[w].result = redact(workers[w].text, preserve_emails)

\* two calls on different texts ran interleaved, so far that an increment of
\* the shared counters was lost, and both returned what they found
C30_Witness ==
    /\ AllReturned
    /\ \E v, w \in Workers : workers[v].text # workers[w].text
    /\ \E w \in Workers : workers[w].result.has_pii
    /\ \E w \in Workers : workers[w].result.redactions # stats.by_type
    /\ stats.total < SumOver(Categories, [c \in Categories |-> ReturnedByWorkers(c)])

\* the call is on a string and has not returned
Running == pc = "loop" /\ text.kind = "str"

\* the call returned a RedactionResult: a string, a dict of positive counts by
\* pii_type, and the flag that says whether the dict has an entry
ReturnedResult ==
    /\ pc = "returned"
    /\ result.returned
    /\ result.redacted_text \in Seq(STRING)
    /\ DOMAIN result.redactions \subseteq Categories
    /\ \A c \in DOMAIN result.redactions : result.redactions[c] \in Nat \ {0}
    /\ result.has_pii \in BOOLEAN

\* a call on a string has not raised, and has looked at no entry of the table twice
OnePass ==
    text.kind = "str" =>
        /\ pc # "raised"
        /\ idx <= NumRules + 1
        /\ Len(seen) <= NumRules
        /\ \A i, j \in 1..Len(seen) : i < j => Position(seen[i].pii_type) < Position(seen[j].pii_type)

(***************************************************************************)
(* C25.  For every string, however malformed, redact never raises and      *)
(* terminates after one pass over the 15 entries of the table, returning   *)
(* a RedactionResult.                                                      *)
(***************************************************************************)
C25_OnePassThenResult == []OnePass /\ (Running ~> ReturnedResult)

\* a call on a string that holds the pieces of an address and no address
\* went through the whole table and returned
C25_Witness ==
    /\ ReturnedText
    /\ text.chars = ExMailTo \o <<" ">> \o ExAtDomain
    /\ Len(seen) = NumRules - (IF preserve_emails THEN 1 ELSE 0)
    /\ ReturnedResult

(***************************************************************************)
(* C24.  In every path that classifies a ticket, the subject and the       *)
(* description placed in a request to the LLM are the redacted_text redact *)
(* returned for that field; the original text is never sent.               *)
(***************************************************************************)
C24_OnlyRedactedSent ==
    \A request \in llm_requests :
        /\ request.subject = redact(request.subject_of, preserve_emails).redacted_text
        /\ request.description =
               redact(request.description_of, preserve_emails).redacted_text

\* the ticket's AI Analysis comments
AIComments(tk) == SelectSeq(tk.comments, IsAIComment)

(***************************************************************************)
(* C26.  After any sequence of update_ticket calls, forced or not, with    *)
(* the comment lookup succeeding or not, the ticket has at most one AI     *)
(* Analysis comment.                                                       *)
(***************************************************************************)
C26_AtMostOneAIComment == Len(AIComments(ticket)) <= 1

\* the last operation called update_ticket
UpdateCalled == last.op \in {"update_ticket", "process_ticket"} /\ last.update.called

(***************************************************************************)
(* C27.  update_ticket with force false on a ticket that has an AI         *)
(* Analysis comment writes nothing to the ticket and returns updated       *)
(* false, skipped true, reason 'already_has_ai_comment'.                   *)
(***************************************************************************)
C27_UnforcedUpdateSkips ==
    (UpdateCalled /\ ~last.force /\ Len(AIComments(last.before)) > 0) =>
        /\ ticket = last.before
        /\ ~last.update.updated
        /\ last.update.skipped
        /\ last.update.reason = "already_has_ai_comment"

(***************************************************************************)
(* C28.  With force false, a ticket process_ticket reports as skipped has  *)
(* caused no LLM call and no write, whether the skip came from the         *)
(* ai_processed tag or from an existing AI Analysis comment.               *)
(***************************************************************************)
C28_SkippedCostsNothing ==
    (last.op = "process_ticket" /\ ~last.force /\ last.result.skipped) =>
        /\ last.llm_calls = 0
        /\ ticket = last.before

\* the tags of the list that start with ai_
AiTagsOf(tags) == {tag \in ToSet(tags) : startswith(tag, AiPrefix)}
\* the ai_processed_<date> tags of the list
DateTagsOf(tags) == {tag \in ToSet(tags) : startswith(tag, ai_processed \o Underscore)}

(***************************************************************************)
(* C29.  After a successful update_ticket write the tag list has no        *)
(* duplicates, keeps every tag the ticket had that does not start with     *)
(* ai_, holds ai_processed and, of the tags of analyses, exactly the       *)
(* ai_<root_cause>, ai_<urgency>, ai_<sentiment> of the latest one, and    *)
(* holds at most one ai_processed_<date> tag.                              *)
(***************************************************************************)
C29_TagsOfLatestAnalysis ==
    (UpdateCalled /\ last.update.updated) =>
        /\ \A i, j \in DOMAIN ticket.tags : i # j => ticket.tags[i] # ticket.tags[j]
        /\ \A tag \in ToSet(last.before.tags) :
               ~startswith(tag, AiPrefix) => tag \in ToSet(ticket.tags)
        /\ ai_processed \in ToSet(ticket.tags)
        /\ AiTagsOf(ticket.tags) \ DateTagsOf(ticket.tags) =
               {ai_processed, AiPrefix \o last.analysis.root_cause,
                AiPrefix \o last.analysis.urgency, AiPrefix \o last.analysis.sentiment}
        /\ Cardinality(DateTagsOf(ticket.tags)) <= 1

\* a write on a later day, with another analysis, to a ticket that had an agent's
\* tag and the tags and the date tag of its earlier analysis
C29_Witness ==
    /\ UpdateCalled
    /\ last.update.updated
    /\ Vip \in ToSet(last.before.tags)
    /\ ai_processed \o Underscore \o Dates[1] \in ToSet(last.before.tags)
    /\ today = Dates[2]
    /\ AiPrefix \o last.analysis.root_cause \notin ToSet(last.before.tags)
    /\ Cardinality(AiTagsOf(last.before.tags)) = 5

=============================================================================
